---- MODULE Spec2Model ----
(***************************************************************************)
(* Model of relx-go's OBS client: Client.ListArtifacts and the helpers it  *)
(* calls (pkg/obs/client.go, current revision with per-rule repositories). *)
(*                                                                         *)
(* Strings are sequences of byte values, so that glob matching, TrimSpace  *)
(* and the byte-wise order of sort.Strings are computed, not assumed.      *)
(***************************************************************************)
EXTENDS Integers, Sequences, FiniteSets, TLC

\* ---------------------------------------------------------------- bounds
MaxPkgLines == 3      \* lines in the output of `osc ls`
MaxRules == 2         \* entries of package_filter_patterns
MaxPRs == 3           \* pull requests GetOpenPullRequests returns
MaxBinPatterns == 2   \* entries of binary_filter_patterns

\* ------------------------------------------------------ program constants
maxConcurrentOscCalls == 10

\* ----------------------------------------------------------------- bytes
Byte == [nl |-> 10, sp |-> 32, star |-> 42, dot |-> 46, slash |-> 47,
         colon |-> 58, question |-> 63, at |-> 64, A |-> 65, E |-> 69,
         Z |-> 90, lbracket |-> 91, underscore |-> 95, a |-> 97, b |-> 98,
         e |-> 101, g |-> 103, h |-> 104, i |-> 105, k |-> 107, o |-> 111,
         p |-> 112, r |-> 114, s |-> 115, t |-> 116, u |-> 117, v |-> 118,
         x |-> 120, y |-> 121]
SP == Byte.sp

Nil == "nil"
NilError == [msg |-> "nil"]      \* a nil error value
NilList == << >>                 \* a nil slice: no elements, like an empty one
Project == "P"

\* ------------------------------------------------------- string helpers
\* Go's `<` on strings: byte-wise lexicographic order.
RECURSIVE StrLess(_, _)
StrLess(s, t) ==
    IF t = <<>> THEN FALSE
    ELSE IF s = <<>> THEN TRUE
    ELSE IF Head(s) # Head(t) THEN Head(s) < Head(t)
    ELSE StrLess(Tail(s), Tail(t))

HasPrefix(s, prefix) ==
    /\ Len(s) >= Len(prefix)
    /\ SubSeq(s, 1, Len(prefix)) = prefix

\* The white space of strings.TrimSpace that the model's inputs hold.
IsSpace(b) == b = SP \/ b = Byte.nl

RECURSIVE TrimLeft(_)
TrimLeft(s) ==
    IF s # <<>> /\ IsSpace(Head(s)) THEN TrimLeft(Tail(s)) ELSE s

RECURSIVE TrimRight(_)
TrimRight(s) ==
    IF s # <<>> /\ IsSpace(s[Len(s)]) THEN TrimRight(SubSeq(s, 1, Len(s) - 1)) ELSE s

TrimSpace(s) == TrimRight(TrimLeft(s))

\* ------------------------------------------------------- filepath.Match
\* A '[' that is never closed makes the pattern malformed (ErrBadPattern).
\* The model's patterns never hold ']', so every '[' is unterminated.
BadPattern(pattern) == \E i \in 1..Len(pattern) : pattern[i] = Byte.lbracket

RECURSIVE Glob(_, _)
Glob(pattern, name) ==
    IF pattern = <<>> THEN name = <<>>
    ELSE IF Head(pattern) = Byte.star
         THEN \/ Glob(Tail(pattern), name)
              \/ name # <<>> /\ Glob(pattern, Tail(name))
    ELSE /\ name # <<>>
         /\ Head(pattern) = Byte.question \/ Head(pattern) = Head(name)
         /\ Glob(Tail(pattern), Tail(name))

Match(pattern, name) ==
    IF BadPattern(pattern)
    THEN [matched |-> FALSE, err |-> TRUE]
    ELSE [matched |-> Glob(pattern, name), err |-> FALSE]

\* ----------------------------------------------------------- sort.Strings
InsertFront(s, sorted) == << s >> \o sorted

RECURSIVE InsertSorted(_, _)
InsertSorted(s, sorted) ==
    IF sorted = <<>> THEN <<s>>
    ELSE IF StrLess(s, Head(sorted)) THEN <<s>> \o sorted
    ELSE <<Head(sorted)>> \o InsertSorted(s, Tail(sorted))

NoSort(list) == list

RECURSIVE SortStrings(_)
SortStrings(list) ==
    IF list = <<>> THEN <<>>
    ELSE InsertSorted(Head(list), SortStrings(Tail(list)))

\* ------------------------------------------------ pure parts of the client
EmptyMap == [k \in {} |-> Nil]

\* Inner loop of step 2: the repository of the first rule that matches pkg.
\* An invalid pattern is skipped (continue); a match ends the loop (break).
\* The same loop without its `break`: the last matching rule wins.
RECURSIVE LastMatch(_, _)
LastMatch(filters, pkg) ==
    IF filters = <<>> THEN [found |-> FALSE, repo |-> Nil]
    ELSE LET filter == Head(filters)
             m == Match(filter.Pattern, pkg)
             later == LastMatch(Tail(filters), pkg)
         IN IF later.found THEN later
            ELSE IF ~m.err /\ m.matched
                 THEN [found |-> TRUE, repo |-> filter.Repository]
            ELSE later

RECURSIVE FirstMatch(_, _)
FirstMatch(filters, pkg) ==
    IF filters = <<>> THEN [found |-> FALSE, repo |-> Nil]
    ELSE LET filter == Head(filters)
             m == Match(filter.Pattern, pkg)
         IN IF m.err THEN FirstMatch(Tail(filters), pkg)
            ELSE IF m.matched THEN [found |-> TRUE, repo |-> filter.Repository]
            ELSE FirstMatch(Tail(filters), pkg)

\* Outer loop of step 2: filteredPackages[pkg] = filter.Repository.
RECURSIVE FilterLoop(_, _, _)
FilterLoop(pkgs, filters, acc) ==
    IF pkgs = <<>> THEN acc
    ELSE LET r == FirstMatch(filters, Head(pkgs))
         IN FilterLoop(Tail(pkgs), filters,
                       IF r.found THEN (Head(pkgs) :> r.repo) @@ acc ELSE acc)

\* With no rule, keep every package (and the default repository).
FilterPackagesKeepAll(pkgs, filters) ==
    IF Len(filters) > 0 THEN FilterLoop(pkgs, filters, EmptyMap)
    ELSE [pkg \in { pkgs[i] : i \in 1..Len(pkgs) } |-> ""]

FilterPackages(pkgs, filters) ==
    IF Len(filters) > 0 THEN FilterLoop(pkgs, filters, EmptyMap) ELSE EmptyMap

\* listPackages after the command succeeded: trim every line, drop blanks.
RECURSIVE CleanPackages(_)
CleanPackages(lines) ==
    IF lines = <<>> THEN <<>>
    ELSE IF TrimSpace(Head(lines)) # <<>>
         THEN <<TrimSpace(Head(lines))>> \o CleanPackages(Tail(lines))
         ELSE CleanPackages(Tail(lines))

\* listBinariesForPackage after the command succeeded: the key set of
\* cleanedBinariesMap.
CleanBinaries(lines) ==
    { TrimSpace(lines[i]) : i \in { j \in 1..Len(lines) :
          /\ HasPrefix(lines[j], <<SP>>)
          /\ ~HasPrefix(lines[j], <<SP, Byte.underscore>>) } }

\* The slices a `for b := range cleanedBinariesMap` loop can build: Go's map
\* iteration order is unspecified, so every ordering of the keys.
RECURSIVE Orderings(_)
Orderings(S) ==
    IF S = {} THEN { <<>> }
    ELSE UNION { { <<e>> \o rest : rest \in Orderings(S \ {e}) } : e \in S }

\* The pattern loop of step 4 leaving at an invalid pattern.
RECURSIVE MatchesAnyStopAtBad(_, _)
MatchesAnyStopAtBad(patterns, binary) ==
    IF patterns = <<>> THEN FALSE
    ELSE LET m == Match(Head(patterns), binary)
         IN IF m.err THEN FALSE
            ELSE IF m.matched THEN TRUE
            ELSE MatchesAnyStopAtBad(Tail(patterns), binary)

\* Step 4 with patterns: keep a binary iff some valid pattern matches it.
RECURSIVE MatchesAny(_, _)
MatchesAny(patterns, binary) ==
    IF patterns = <<>> THEN FALSE
    ELSE LET m == Match(Head(patterns), binary)
         IN IF m.err THEN MatchesAny(Tail(patterns), binary)
            ELSE IF m.matched THEN TRUE
            ELSE MatchesAny(Tail(patterns), binary)

KeepAllBinaries(binaries, patterns) == binaries

RECURSIVE FilterBinaries(_, _)
FilterBinaries(binaries, patterns) ==
    IF binaries = <<>> THEN <<>>
    ELSE IF MatchesAny(patterns, Head(binaries))
         THEN <<Head(binaries)>> \o FilterBinaries(Tail(binaries), patterns)
         ELSE FilterBinaries(Tail(binaries), patterns)

FinalList(binaries, patterns) ==
    IF Len(patterns) = 0 THEN SortStrings(binaries)
    ELSE SortStrings(FilterBinaries(binaries, patterns))

\* ------------------------------------------------------------------ inputs
SeqsUpTo(S, n) == UNION { [1..k -> S] : k \in 0..n }

\* Lines `osc ls` may print: a blank line, "a", "ab", " b".
PkgLineChoices == { <<>>, <<Byte.a>>, <<Byte.a, Byte.b>>, <<SP, Byte.b>> }
OscLsOutputs == SeqsUpTo(PkgLineChoices, MaxPkgLines) \ { <<>> }

\* Outputs `osc ls -b` may print for a package (strings.Split yields at
\* least one line): "h", " y", " _b" / " xy", " x", " x " / an empty line.
OscLsBOutputs ==
    { << <<Byte.h>>, <<SP, Byte.y>>, <<SP, Byte.underscore, Byte.b>> >>,
      << <<SP, Byte.x, Byte.y>>, <<SP, Byte.x>>, <<SP, Byte.x, SP>> >>,
      << <<>> >> }

\* Globs of package_filter_patterns: "a*", "?", and the malformed "[".
PkgPatternChoices == { <<Byte.a, Byte.star>>, <<Byte.question>>, <<Byte.lbracket>> }
RepoNames == <<"repo1", "repo2", "", "repo4">>
PackageFilterLists ==
    { [i \in 1..Len(ps) |-> [Pattern |-> ps[i], Repository |-> RepoNames[i]]] :
        ps \in SeqsUpTo(PkgPatternChoices, MaxRules) }

\* Globs of binary_filter_patterns: "x*" and the malformed "[".  The
\* configuration never changes and only step 4 reads these patterns, so
\* the model draws them there instead of carrying them from Init.
BinPatternChoices == { <<Byte.x, Byte.star>>, <<Byte.lbracket>> }
BinaryFilterLists == SeqsUpTo(BinPatternChoices, MaxBinPatterns)

\* Capacities of sem.  The program's is maxConcurrentOscCalls; the smaller
\* ones make the scheduling loop block with a handful of packages.
SemCapacities == { 1, 2, maxConcurrentOscCalls }

RunnerErrors == { "exit status 1" }
CtxError == "context canceled"

\* ------------------------------------------------------------------- state
VARIABLES
    cfg,              \* c.cfg.PackageFilterPatterns
    binPatterns,      \* c.cfg.BinaryFilterPatterns, from the step that reads it
    semCap,           \* cap(sem)
    cancelled,        \* ctx.Done() is closed
    pc,               \* where the goroutine that called ListArtifacts is
    packages,         \* result of listPackages, until step 2 has consumed it
    listed,           \* the names listPackages returned (history)
    filteredPackages, \* map package -> repository
    pending,          \* keys the range loop over filteredPackages has left
    sem,              \* len(sem): slots taken
    wg,               \* WaitGroup counter
    task,             \* one record per goroutine started by the loop
    errCh,            \* buffer of errCh
    resultsCh,        \* buffer of resultsCh
    chCap,            \* cap(errCh) = cap(resultsCh)
    errClosed,        \* number of close(errCh) executed
    resClosed,        \* number of close(resultsCh) executed
    closer,           \* where the goroutine of lines 102-108 is
    allErrors,
    allBinaries,
    retList,          \* first return value
    retErr,           \* second return value
    pkgListerCalls,   \* invocations of listPackages
    listErr,          \* the err of line 41
    repeated,         \* keys step 2 wrote more than once; in the loop of step 3,
                      \* whether the key of the newest task is one (history)
    haPc,             \* HandleArtifacts: where the call is
    haOut,            \* HandleArtifacts: what was handed to cfg.OutputWriter
    haRet,            \* HandleArtifacts: the returned error
    mrCfg,            \* ManageRepo: RepoURL, RepoBranch, CacheDir
    mrFs,             \* ManageRepo: what the file system answers
    mrPc,             \* ManageRepo: where the call is
    mrCmds,           \* ManageRepo: the commands given to the runner (history)
    mrRet,            \* ManageRepo: the returned path and error
    rvIn,             \* HandleReview: user, pr_reviewer, prIDs
    rvPc,             \* HandleReview: where the call is
    rvPrs,            \* HandleReview: prsToReview
    rvIdx,            \* HandleReview: position of the review loop
    rvShown,          \* HandleReview: positions given to ShowPullRequest (history)
    rvApproved,       \* HandleReview: positions given to ApprovePullRequest (history)
    rvAnswers,        \* HandleReview: the lines read in the loop (history)
    rvRet             \* HandleReview: the returned error

handlerVars == << haPc, haOut, haRet >>
repoVars == << mrCfg, mrFs, mrPc, mrCmds, mrRet >>
reviewVars == << rvIn, rvPc, rvPrs, rvIdx, rvShown, rvApproved, rvAnswers, rvRet >>

clientVars == << cfg, binPatterns, semCap, cancelled, pc, packages, listed, filteredPackages, pending,
           sem, wg, task, errCh, resultsCh, chCap, errClosed, resClosed,
           closer, allErrors, allBinaries, retList, retErr, pkgListerCalls,
           listErr, repeated >>

vars == << clientVars, handlerVars, repoVars, reviewVars >>

\* ManageRepo and HandleReview are not called.
RepoIdle ==
    /\ mrCfg = [RepoURL |-> <<>>, RepoBranch |-> <<>>, CacheDir |-> <<>>]
    /\ mrFs = [mkdirOk |-> TRUE, hasGit |-> FALSE]
    /\ mrPc = "idle"
    /\ mrCmds = <<>>
    /\ mrRet = [path |-> <<>>, err |-> NilError]

ReviewIdle ==
    /\ rvIn = [user |-> "", PRReviewer |-> "", prIDs |-> <<>>]
    /\ rvPc = "idle"
    /\ rvPrs = <<>>
    /\ rvIdx = 0
    /\ rvShown = <<>>
    /\ rvApproved = <<>>
    /\ rvAnswers = <<>>
    /\ rvRet = NilError

\* HandleArtifacts has made its client and calls ListArtifacts.
HandlerStart ==
    /\ haPc = "calling"
    /\ haOut = <<>>
    /\ haRet = NilError

\* ListArtifacts is entered.
ClientStart ==
    /\ binPatterns = [read |-> FALSE, patterns |-> <<>>]
    /\ cancelled = FALSE
    /\ pc = "listPackages"
    /\ packages = <<>>
    /\ listed = {}
    /\ filteredPackages = EmptyMap
    /\ pending = {}
    /\ sem = 0
    /\ wg = 0
    /\ task = EmptyMap
    /\ errCh = <<>>
    /\ resultsCh = <<>>
    /\ chCap = 0
    /\ errClosed = 0
    /\ resClosed = 0
    /\ closer = "none"
    /\ allErrors = <<>>
    /\ allBinaries = <<>>
    /\ retList = NilList
    /\ retErr = NilError
    /\ pkgListerCalls = 0
    /\ listErr = NilError
    /\ repeated = {}

Init ==
    /\ cfg \in [PackageFilterPatterns : PackageFilterLists]
    /\ semCap \in SemCapacities
    /\ ClientStart
    /\ HandlerStart
    /\ RepoIdle
    /\ ReviewIdle

\* ----------------------------------------------------------------- actions
\* The error a runner bound to ctx returns: once ctx is cancelled the
\* subprocess is killed, so the call can only fail.
RunErrors == IF cancelled THEN { CtxError } ELSE RunnerErrors

\* A command can only succeed while ctx is not cancelled.
RunIgnoresCtx == TRUE
RunCanSucceed == ~cancelled

\* fmt.Errorf("failed to list packages for project %s: %w", project, err)
ListErrBare(err) == err
ListErrDropped(err) == NilError
ListErrWrapped(err) ==
    [msg |-> "failed to list packages for project", project |-> Project,
     cause |-> err]

\* Step 1 fails: listPackages wraps the runner's error, ListArtifacts wraps
\* that with the project and returns.
ListPackagesFails ==
    /\ pc = "listPackages"
    /\ \E e \in RunErrors :
          /\ listErr' = [msg |-> "failed to run 'osc ls' for project",
                         project |-> Project, cause |-> e]
          /\ retErr' = ListErrWrapped(listErr')
    /\ retList' = NilList
    /\ pkgListerCalls' = pkgListerCalls + 1
    /\ pc' = "done"
    /\ UNCHANGED << cfg, binPatterns, semCap, repeated, cancelled, packages, listed,
                    filteredPackages, pending, sem, wg, task, errCh, resultsCh,
                    chCap, errClosed, resClosed, closer, allErrors, allBinaries >>
    /\ UNCHANGED << handlerVars, repoVars, reviewVars >>

\* Step 1 succeeds.
ListPackagesOk ==
    /\ pc = "listPackages"
    /\ RunCanSucceed
    /\ \E output \in OscLsOutputs :
          /\ packages' = CleanPackages(output)
          /\ listed' = { packages'[i] : i \in 1..Len(packages') }
    /\ pkgListerCalls' = pkgListerCalls + 1
    /\ pc' = "filter"
    /\ UNCHANGED << cfg, binPatterns, semCap, listErr, repeated, cancelled, filteredPackages,
                    pending, sem, wg, task, errCh, resultsCh, chCap, errClosed,
                    resClosed, closer, allErrors, allBinaries, retList, retErr >>
    /\ UNCHANGED << handlerVars, repoVars, reviewVars >>

\* len(filteredPackages): the number of keys of the map.
LenMatchedLines(fp) ==
    Cardinality({ i \in 1..Len(packages) : packages[i] \in DOMAIN fp })
LenFiltered(fp) == Cardinality(DOMAIN fp)

\* if len(filteredPackages) == 0
NeverNoneFiltered(fp) == FALSE
NoneFiltered(fp) == LenFiltered(fp) = 0

\* make(chan ..., len(filteredPackages)): room for one send per task.
Unbuffered(fp) == 0
OneMessage(fp) == 1
ChanCapacity(fp) == LenFiltered(fp)

\* The keys that the loop of step 2 wrote more than once.
WrittenTwice(fp) ==
    { packages[j] : j \in { i \in 1..Len(packages) :
                               /\ packages[i] \in DOMAIN fp
                               /\ \E k \in 1..(i - 1) : packages[k] = packages[i] } }

\* Step 2, then either the early return or the make() calls of step 3.
FilterStep ==
    /\ pc = "filter"
    /\ LET fp == FilterPackages(packages, cfg.PackageFilterPatterns)
       IN /\ filteredPackages' = fp
          /\ IF NoneFiltered(fp)
             THEN /\ retList' = <<>>
                  /\ retErr' = NilError
                  /\ pc' = "done"
                  /\ UNCHANGED << pending, chCap, repeated >>
             ELSE /\ pending' = DOMAIN fp
                  /\ repeated' = WrittenTwice(fp)
                  /\ chCap' = ChanCapacity(fp)
                  /\ pc' = "schedule"
                  /\ UNCHANGED << retList, retErr >>
    /\ packages' = <<>>    \* nothing reads packages after step 2
    /\ UNCHANGED << cfg, binPatterns, semCap, listErr, cancelled, listed, sem, wg, task, errCh,
                    resultsCh, errClosed, resClosed, closer, allErrors,
                    allBinaries, pkgListerCalls >>
    /\ UNCHANGED << handlerVars, repoVars, reviewVars >>

\* `sem <- struct{}{}` can proceed: the buffer of sem has room.
SemUnbounded == TRUE
SemHasRoom == sem < semCap

\* The range loop visits each key of filteredPackages once.
KeysLeftSame(pkg) == pending
KeysLeft(pkg) == pending \ { pkg }

\* One iteration of the range loop: take a slot (blocks while sem is full),
\* wg.Add(1), start the goroutine, which calls listBinariesForPackage.
Schedule(pkg) ==
    /\ pc = "schedule"
    /\ pkg \in pending
    /\ SemHasRoom
    /\ sem' = sem + 1
    /\ wg' = wg + 1
    /\ task' = (pkg :> [pc |-> "running", pkgName |-> pkg,
                        repoName |-> filteredPackages[pkg],
                        calls |-> (IF pkg \in DOMAIN task THEN task[pkg].calls ELSE 0) + 1,
                        outcome |-> "none", binaries |-> NilList,
                        err |-> NilError]) @@ task
    /\ pending' = KeysLeft(pkg)
    /\ repeated' = repeated \cap { pkg }
    /\ UNCHANGED << cfg, binPatterns, semCap, listErr, cancelled, pc, packages, listed, filteredPackages,
                    errCh, resultsCh, chCap, errClosed, resClosed, closer,
                    allErrors, allBinaries, retList, retErr, pkgListerCalls >>
    /\ UNCHANGED << handlerVars, repoVars, reviewVars >>

\* The loop is over: start the goroutine that waits and closes.
LoopLeftEarly == TRUE
LoopOver == pending = {}

\* The loop of step 3 is over: `go func() { wg.Wait(); ... }()`.
StartCloser ==
    /\ pc = "schedule"
    /\ LoopOver
    /\ closer' = "waiting"
    /\ pc' = "drainErr"
    /\ repeated' = {}    \* the loop is over
    /\ UNCHANGED << cfg, binPatterns, semCap, listErr, cancelled, packages, listed, filteredPackages, pending,
                    sem, wg, task, errCh, resultsCh, chCap, errClosed,
                    resClosed, allErrors, allBinaries, retList, retErr,
                    pkgListerCalls >>
    /\ UNCHANGED << handlerVars, repoVars, reviewVars >>

\* `return` after the send to errCh: nothing is sent to resultsCh.
FallsThrough(ch) == Append(ch, NilList)
ReturnsAfterError(ch) == ch

\* listBinariesForPackage fails; the goroutine sends the wrapped error.
TaskFails(pkg) ==
    /\ pkg \in DOMAIN task
    /\ task[pkg].pc = "running"
    /\ Len(errCh) < chCap
    /\ \E e \in RunErrors :
          LET err == [msg |-> "failed to list binaries for package",
                      pkg |-> task[pkg].pkgName,
                      cause |-> [msg |-> "failed to run 'osc ls -b' for package",
                                 pkg |-> task[pkg].pkgName, cause |-> e]]
          IN /\ errCh' = Append(errCh, err)
             /\ task' = [task EXCEPT ![pkg].pc = "published",
                                     ![pkg].outcome = "err", ![pkg].err = err]
    /\ resultsCh' = ReturnsAfterError(resultsCh)
    /\ UNCHANGED << cfg, binPatterns, semCap, listErr, repeated, cancelled, pc, packages, listed, filteredPackages,
                    pending, sem, wg, chCap, errClosed, resClosed,
                    closer, allErrors, allBinaries, retList, retErr,
                    pkgListerCalls >>
    /\ UNCHANGED << handlerVars, repoVars, reviewVars >>

\* listBinariesForPackage succeeds; the goroutine sends the binaries.
TaskSucceeds(pkg) ==
    /\ pkg \in DOMAIN task
    /\ task[pkg].pc = "running"
    /\ RunCanSucceed
    /\ Len(resultsCh) < chCap
    /\ \E output \in OscLsBOutputs :
          \E binaries \in Orderings(CleanBinaries(output)) :
             /\ resultsCh' = Append(resultsCh, binaries)
             /\ task' = [task EXCEPT ![pkg].pc = "published",
                                     ![pkg].outcome = "ok",
                                     ![pkg].binaries = binaries]
    /\ UNCHANGED << cfg, binPatterns, semCap, listErr, repeated, cancelled, pc, packages, listed, filteredPackages,
                    pending, sem, wg, errCh, chCap, errClosed, resClosed,
                    closer, allErrors, allBinaries, retList, retErr,
                    pkgListerCalls >>
    /\ UNCHANGED << handlerVars, repoVars, reviewVars >>

\* First deferred call: <-sem.
TaskRelease(pkg) ==
    /\ pkg \in DOMAIN task
    /\ task[pkg].pc = "published"
    /\ sem > 0
    /\ sem' = sem - 1
    /\ task' = [task EXCEPT ![pkg].pc = "released"]
    /\ UNCHANGED << cfg, binPatterns, semCap, listErr, repeated, cancelled, pc, packages, listed, filteredPackages,
                    pending, wg, errCh, resultsCh, chCap, errClosed, resClosed,
                    closer, allErrors, allBinaries, retList, retErr,
                    pkgListerCalls >>
    /\ UNCHANGED << handlerVars, repoVars, reviewVars >>

\* Second deferred call: wg.Done().
TaskDone(pkg) ==
    /\ pkg \in DOMAIN task
    /\ task[pkg].pc = "released"
    /\ wg' = wg - 1
    /\ task' = [task EXCEPT ![pkg].pc = "done"]
    /\ UNCHANGED << cfg, binPatterns, semCap, listErr, repeated, cancelled, pc, packages, listed, filteredPackages,
                    pending, sem, errCh, resultsCh, chCap, errClosed, resClosed,
                    closer, allErrors, allBinaries, retList, retErr,
                    pkgListerCalls >>
    /\ UNCHANGED << handlerVars, repoVars, reviewVars >>

\* wg.Wait() returns once the counter is zero.
WaitSkipped == TRUE
WaitReturns == wg = 0

CloserWakes ==
    /\ closer = "waiting"
    /\ WaitReturns
    /\ closer' = "closeErr"
    /\ UNCHANGED << cfg, binPatterns, semCap, listErr, repeated, cancelled, pc, packages, listed, filteredPackages,
                    pending, sem, wg, task, errCh, resultsCh, chCap, errClosed,
                    resClosed, allErrors, allBinaries, retList, retErr,
                    pkgListerCalls >>
    /\ UNCHANGED << handlerVars, repoVars, reviewVars >>

CloseErrCh ==
    /\ closer = "closeErr"
    /\ errClosed' = errClosed + 1
    /\ closer' = "closeResults"
    /\ UNCHANGED << cfg, binPatterns, semCap, listErr, repeated, cancelled, pc, packages, listed, filteredPackages,
                    pending, sem, wg, task, errCh, resultsCh, chCap, resClosed,
                    allErrors, allBinaries, retList, retErr, pkgListerCalls >>
    /\ UNCHANGED << handlerVars, repoVars, reviewVars >>

CloseResultsCh ==
    /\ closer = "closeResults"
    /\ resClosed' = resClosed + 1
    /\ closer' = "exited"
    /\ UNCHANGED << cfg, binPatterns, semCap, listErr, repeated, cancelled, pc, packages, listed, filteredPackages,
                    pending, sem, wg, task, errCh, resultsCh, chCap, errClosed,
                    allErrors, allBinaries, retList, retErr, pkgListerCalls >>
    /\ UNCHANGED << handlerVars, repoVars, reviewVars >>

\* allErrors = append(allErrors, err)
KeepLastErr(errs, err) == << err >>
CollectErr(errs, err) == Append(errs, err)

\* One iteration of `for err := range errCh`.
RecvErr ==
    /\ pc = "drainErr"
    /\ Len(errCh) > 0
    /\ allErrors' = CollectErr(allErrors, Head(errCh))
    /\ errCh' = Tail(errCh)
    /\ UNCHANGED << cfg, binPatterns, semCap, listErr, repeated, cancelled, pc, packages, listed, filteredPackages,
                    pending, sem, wg, task, resultsCh, chCap, errClosed,
                    resClosed, closer, allBinaries, retList, retErr,
                    pkgListerCalls >>
    /\ UNCHANGED << handlerVars, repoVars, reviewVars >>

\* if len(allErrors) > 0
SeveralErrors(errs) == Len(errs) > 1
IgnoreErrors(errs) == FALSE
HasErrors(errs) == Len(errs) > 0

\* `for err := range errCh` ends when errCh is closed and empty.
RangeEndsWhenEmpty == Len(errCh) = 0
RangeEnds == Len(errCh) = 0 /\ errClosed > 0

\* errCh is closed and empty: the range loop ends; return the collected
\* errors if there are any, else go on to the results.
ErrChDrained ==
    /\ pc = "drainErr"
    /\ RangeEnds
    /\ IF HasErrors(allErrors)
       THEN /\ retList' = NilList
            /\ retErr' = [msg |-> "multiple errors occurred while listing binaries",
                          errors |-> allErrors]
            /\ pc' = "done"
       ELSE /\ pc' = "drainResults"
            /\ UNCHANGED << retList, retErr >>
    /\ UNCHANGED << cfg, binPatterns, semCap, listErr, repeated, cancelled, packages, listed, filteredPackages, pending,
                    sem, wg, task, errCh, resultsCh, chCap, errClosed,
                    resClosed, closer, allErrors, allBinaries, pkgListerCalls >>
    /\ UNCHANGED << handlerVars, repoVars, reviewVars >>

\* One iteration of `for binaries := range resultsCh`.
RecvResults ==
    /\ pc = "drainResults"
    /\ Len(resultsCh) > 0
    /\ allBinaries' = allBinaries \o Head(resultsCh)
    /\ resultsCh' = Tail(resultsCh)
    /\ UNCHANGED << cfg, binPatterns, semCap, listErr, repeated, cancelled, pc, packages, listed, filteredPackages,
                    pending, sem, wg, task, errCh, chCap, errClosed, resClosed,
                    closer, allErrors, retList, retErr, pkgListerCalls >>
    /\ UNCHANGED << handlerVars, repoVars, reviewVars >>

\* resultsCh is closed and empty: step 4 and the return.
ResultsDrained ==
    /\ pc = "drainResults"
    /\ Len(resultsCh) = 0
    /\ resClosed > 0
    /\ \E patterns \in BinaryFilterLists :
          /\ binPatterns' = [read |-> TRUE, patterns |-> patterns]
          /\ retList' = FinalList(allBinaries, patterns)
    /\ retErr' = NilError
    /\ pc' = "done"
    /\ UNCHANGED << cfg, semCap, listErr, repeated, cancelled, packages, listed, filteredPackages,
                    pending, sem, wg, task, errCh, resultsCh, chCap, errClosed,
                    resClosed, closer, allErrors, allBinaries, pkgListerCalls >>
    /\ UNCHANGED << handlerVars, repoVars, reviewVars >>

\* The caller of ListArtifacts cancels ctx.  Only the runner reads ctx, so
\* a cancellation after the last command has returned changes nothing and
\* is left out.
Cancel ==
    /\ ~cancelled
    /\ \/ pc \in { "listPackages", "filter" }
       \/ pending # {}
       \/ \E pkg \in DOMAIN task : task[pkg].pc = "running"
    /\ cancelled' = TRUE
    /\ UNCHANGED << cfg, binPatterns, semCap, listErr, repeated, pc, packages, listed, filteredPackages, pending, sem,
                    wg, task, errCh, resultsCh, chCap, errClosed, resClosed,
                    closer, allErrors, allBinaries, retList, retErr,
                    pkgListerCalls >>
    /\ UNCHANGED << handlerVars, repoVars, reviewVars >>

\* --------------------------------------------------------- HandleArtifacts
\* strings.Join(elems, sep)
RECURSIVE Join(_, _)
Join(elems, sep) ==
    IF elems = << >> THEN << >>
    ELSE IF Len(elems) = 1 THEN elems[1]
    ELSE elems[1] \o sep \o Join(Tail(elems), sep)

\* The text of the single Fprintf of HandleArtifacts.
ArtifactsHeaderAlways(project, artifacts) ==
    [format |-> "Artifacts for project '%s':\n%s\n", project |-> project,
     body |-> Join(artifacts, << Byte.nl >>)]
ArtifactsMessage(project, artifacts) ==
    IF Len(artifacts) > 0
    THEN [format |-> "Artifacts for project '%s':\n%s\n", project |-> project,
          body |-> Join(artifacts, << Byte.nl >>)]
    ELSE [format |-> "No artifacts found for project '%s'.\n",
          project |-> project, body |-> << >>]

\* What a write to cfg.OutputWriter can answer.
WriteError == [msg |-> "write error"]
WriteResults == { NilError, WriteError }

\* ListArtifacts failed: the error is wrapped and nothing is written.
HandleArtifactsFails ==
    /\ haPc = "calling"
    /\ pc = "done"
    /\ retErr # NilError
    /\ haRet' = [msg |-> "failed to list artifacts for project",
                 project |-> Project, cause |-> retErr]
    /\ haPc' = "done"
    /\ UNCHANGED << haOut, clientVars, repoVars, reviewVars >>

\* ListArtifacts succeeded: one Fprintf, whose error, if any, is returned.
HandleArtifactsWrites ==
    /\ haPc = "calling"
    /\ pc = "done"
    /\ retErr = NilError
    /\ haOut' = Append(haOut, ArtifactsMessage(Project, retList))
    /\ \E werr \in WriteResults : haRet' = werr
    /\ haPc' = "done"
    /\ UNCHANGED << clientVars, repoVars, reviewVars >>

\* -------------------------------------------------------------- ManageRepo
\* strings.Index and strings.LastIndex for one byte, counted from 1; 0 for
\* Go's -1.
Index(s, b) ==
    IF \E i \in 1..Len(s) : s[i] = b
    THEN CHOOSE i \in 1..Len(s) : s[i] = b /\ \A j \in 1..(i - 1) : s[j] # b
    ELSE 0
LastIndex(s, b) ==
    IF \E i \in 1..Len(s) : s[i] = b
    THEN CHOOSE i \in 1..Len(s) : s[i] = b /\ \A j \in (i + 1)..Len(s) : s[j] # b
    ELSE 0
From(s, i) == SubSeq(s, i, Len(s))

TrimSuffix(s, suffix) ==
    IF /\ Len(s) >= Len(suffix)
       /\ SubSeq(s, Len(s) - Len(suffix) + 1, Len(s)) = suffix
    THEN SubSeq(s, 1, Len(s) - Len(suffix))
    ELSE s

\* filepath.Base: the last element of the path, "." for an empty path and
\* "/" for a path of slashes only.
RECURSIVE TrimSlashes(_)
TrimSlashes(path) ==
    IF path # << >> /\ path[Len(path)] = Byte.slash
    THEN TrimSlashes(SubSeq(path, 1, Len(path) - 1))
    ELSE path
Base(path) ==
    IF path = << >> THEN << Byte.dot >>
    ELSE LET t == TrimSlashes(path)
         IN IF t = << >> THEN << Byte.slash >>
            ELSE From(t, LastIndex(t, Byte.slash) + 1)

HttpScheme == << Byte.h, Byte.t, Byte.t, Byte.p, Byte.colon, Byte.slash, Byte.slash >>
HttpsScheme ==
    << Byte.h, Byte.t, Byte.t, Byte.p, Byte.s, Byte.colon, Byte.slash, Byte.slash >>
DotGit == << Byte.dot, Byte.g, Byte.i, Byte.t >>

\* url.Parse for scheme://host/path: the path starts at the first slash
\* after the host, and a space in the host is an error.
UrlParse(rawURL) ==
    LET rest == IF HasPrefix(rawURL, HttpsScheme)
                THEN From(rawURL, Len(HttpsScheme) + 1)
                ELSE From(rawURL, Len(HttpScheme) + 1)
        slash == Index(rest, Byte.slash)
        host == IF slash = 0 THEN rest ELSE SubSeq(rest, 1, slash - 1)
    IN [Path |-> IF slash = 0 THEN << >> ELSE From(rest, slash),
        err |-> IF Index(host, SP) # 0
                THEN [msg |-> "invalid character in host name"] ELSE NilError]

deriveRepoName(repoURL) ==
    LET isHttp == HasPrefix(repoURL, HttpScheme) \/ HasPrefix(repoURL, HttpsScheme)
        u == UrlParse(repoURL)
        afterAt == From(repoURL, LastIndex(repoURL, Byte.at) + 1)
        path == IF isHttp THEN u.Path
                ELSE From(afterAt, Index(afterAt, Byte.colon) + 1)
        repoName == TrimSuffix(Base(path), DotGit)
    IN IF isHttp /\ u.err # NilError
       THEN [name |-> << >>,
             err |-> [msg |-> "gitutils: failed to parse URL", cause |-> u.err]]
       ELSE IF repoName \in { << >>, << Byte.dot >>, << Byte.slash >> }
       THEN [name |-> << >>,
             err |-> [msg |-> "gitutils: could not derive a valid repository name from URL",
                      cause |-> NilError]]
       ELSE [name |-> repoName, err |-> NilError]

\* cache.New
MkdirError == [msg |-> "mkdir: permission denied"]
cacheNew(baseDir, fs) ==
    IF baseDir = << >>
    THEN [msg |-> "cache: base directory cannot be empty", cause |-> NilError]
    ELSE IF ~fs.mkdirOk
    THEN [msg |-> "cache: error creating cache directory", cause |-> MkdirError]
    ELSE NilError

\* cache.GetPath: filepath.Join(baseDir, artifactName)
GetPath(baseDir, name) == TrimSlashes(baseDir) \o << Byte.slash >> \o name

\* RepoURL values: "", "http://h/r.git", "https://h/", "g@h:u/r",
\* "http://h h/r" and ".git".
RepoURLChoices ==
    { << >>,
      HttpScheme \o << Byte.h, Byte.slash, Byte.r >> \o DotGit,
      HttpsScheme \o << Byte.h, Byte.slash >>,
      << Byte.g, Byte.at, Byte.h, Byte.colon, Byte.u, Byte.slash, Byte.r >>,
      HttpScheme \o << Byte.h, SP, Byte.h, Byte.slash, Byte.r >>,
      DotGit }
RepoBranchChoices == { << >>, << Byte.b >> }
CacheDirChoices == { << >>, << Byte.slash, Byte.k, Byte.slash >> }
GitResults == { NilError, [msg |-> "exit status 128"], [msg |-> CtxError] }

\* ManageRepo is called.
RepoStart ==
    /\ mrCfg \in [RepoURL : RepoURLChoices, RepoBranch : RepoBranchChoices,
                   CacheDir : CacheDirChoices]
    /\ mrFs \in [mkdirOk : BOOLEAN, hasGit : BOOLEAN]
    /\ mrPc = "start"
    /\ mrCmds = << >>
    /\ mrRet = [path |-> << >>, err |-> NilError]

MRFail(err) ==
    /\ mrRet' = [path |-> << >>, err |-> err]
    /\ mrPc' = "done"

\* Lines 60-89: the configuration, the cache, the repository name, and the
\* test for a cached repository.
MRPrepare ==
    /\ mrPc = "start"
    /\ LET cacheErr == cacheNew(mrCfg.CacheDir, mrFs)
           derived == deriveRepoName(mrCfg.RepoURL)
       IN IF mrCfg.RepoURL = << >>
          THEN MRFail([msg |-> "gitutils: repository URL (RepoURL) cannot be empty in the configuration",
                       cause |-> NilError])
          ELSE IF mrCfg.RepoBranch = << >>
          THEN MRFail([msg |-> "gitutils: repository branch (RepoBranch) cannot be empty in the configuration",
                       cause |-> NilError])
          ELSE IF cacheErr # NilError THEN MRFail(cacheErr)
          ELSE IF derived.err # NilError THEN MRFail(derived.err)
          ELSE /\ mrPc' = IF mrFs.hasGit THEN "switch" ELSE "clone"
               /\ UNCHANGED mrRet
    /\ UNCHANGED << mrCfg, mrFs, mrCmds, clientVars, handlerVars, reviewVars >>

\* `if cmdErr != nil { return ... }` not taken.
ProceedsAlways(cmdErr) == TRUE
Proceeds(cmdErr) == cmdErr = NilError

\* One runner.Run of git and the test of its error.
RunGit(subcommand, next) ==
    /\ \E cmdErr \in GitResults :
          /\ mrCmds' = Append(mrCmds, [argv |-> << "git", subcommand >>, err |-> cmdErr])
          /\ IF Proceeds(cmdErr)
             THEN IF next = "done"
                  THEN /\ mrRet' = [path |-> GetPath(mrCfg.CacheDir,
                                                     deriveRepoName(mrCfg.RepoURL).name),
                                    err |-> NilError]
                       /\ mrPc' = "done"
                  ELSE /\ mrPc' = next
                       /\ UNCHANGED mrRet
             ELSE MRFail([msg |-> "gitutils: git command failed",
                          subcommand |-> subcommand, cause |-> cmdErr])
    /\ UNCHANGED << mrCfg, mrFs, clientVars, handlerVars, reviewVars >>

MRSwitch == mrPc = "switch" /\ RunGit("switch", "fetch")
MRFetch == mrPc = "fetch" /\ RunGit("fetch", "pull")
MRPull == mrPc = "pull" /\ RunGit("pull", "done")
MRClone == mrPc = "clone" /\ RunGit("clone", "done")

\* ------------------------------------------------------------ HandleReview
\* strings.ToLower on ASCII
ToLower(s) ==
    [i \in 1..Len(s) |->
        IF s[i] >= Byte.A /\ s[i] <= Byte.Z THEN s[i] + (Byte.a - Byte.A) ELSE s[i]]

\* strings.ToLower(strings.TrimSpace(response))
Normalize(line) == ToLower(TrimSpace(line))

Words ==
    [a |-> << Byte.a >>,
     approve |-> << Byte.a, Byte.p, Byte.p, Byte.r, Byte.o, Byte.v, Byte.e >>,
     s |-> << Byte.s >>,
     skip |-> << Byte.s, Byte.k, Byte.i, Byte.p >>,
     e |-> << Byte.e >>,
     exit |-> << Byte.e, Byte.x, Byte.i, Byte.t >>,
     y |-> << Byte.y >>,
     yes |-> << Byte.y, Byte.e, Byte.s >>]

\* case "a", "approve" and case "e", "exit"; "s", "skip" and any other
\* answer write a line and go on to the next pull request.
IsApprove(answer) == answer \in { Words.a, Words.approve }
NeverExit(answer) == FALSE
IsExit(answer) == answer \in { Words.e, Words.exit }

\* What reader.ReadString('\n') returns: a line with its newline, or
\* io.EOF.  The lines are "y", "yes", "x" for the first prompt and "a",
\* " A ", "approve", "s", "skip", "e", "E", "exit", "x", "" for the loop.
EOF == [msg |-> "EOF"]
Line(text) == [line |-> text \o << Byte.nl >>, err |-> NilError]
ReadFails == [line |-> << >>, err |-> EOF]
ConfirmReads ==
    { Line(Words.y), Line(Words.yes), Line(<< Byte.x >>), ReadFails }
LoopReads ==
    { Line(Words.a), Line(<< SP, Byte.A, SP >>), Line(Words.approve),
      Line(Words.s), Line(Words.skip), Line(Words.e), Line(<< Byte.E >>),
      Line(Words.exit), Line(<< Byte.x >>), Line(<< >>), ReadFails }

PrIDChoices == { "101", "102" }
FetchedLists == SeqsUpTo(PrIDChoices, MaxPRs)
ProvidedLists == { << >>, << "102" >>, << "102", "101" >>, << "999" >> }
GiteaErrors == { [msg |-> "exit status 1"] }

\* HandleReview is called.
ReviewStart ==
    /\ rvIn \in [user : { "", "u" }, PRReviewer : { "", "r" },
                  prIDs : ProvidedLists]
    /\ rvPc = "start"
    /\ rvPrs = << >>
    /\ rvIdx = 0
    /\ rvShown = << >>
    /\ rvApproved = << >>
    /\ rvAnswers = << >>
    /\ rvRet = NilError

RVReturn(err) ==
    /\ rvRet' = err
    /\ rvPc' = "done"

\* The provided IDs that were fetched, in the order they were provided.
RECURSIVE SelectProvided(_, _)
SelectProvided(prIDs, fetchedPRs) ==
    IF prIDs = << >> THEN << >>
    ELSE (IF \E i \in 1..Len(fetchedPRs) : fetchedPRs[i] = Head(prIDs)
          THEN << Head(prIDs) >> ELSE << >>)
         \o SelectProvided(Tail(prIDs), fetchedPRs)

\* Lines 133-192: the reviewer, the fetch, the selection and the list that
\* is printed before the first prompt.  Any of the writes can fail.
RVList ==
    /\ rvPc = "start"
    /\ LET reviewer == IF rvIn.user # "" THEN rvIn.user ELSE rvIn.PRReviewer
       IN IF reviewer = ""
          THEN /\ RVReturn([msg |-> "missing 'pr_reviewer' configuration and no user specified with -u/--user"])
               /\ UNCHANGED rvPrs
          ELSE \/ \E err \in GiteaErrors :
                    /\ RVReturn([msg |-> "failed to get open pull requests for branch",
                                 cause |-> err])
                    /\ UNCHANGED rvPrs
               \/ \E fetchedPRs \in FetchedLists, werr \in WriteResults :
                    LET prsToReview == IF Len(rvIn.prIDs) > 0
                                       THEN SelectProvided(rvIn.prIDs, fetchedPRs)
                                       ELSE fetchedPRs
                    IN /\ rvPrs' = prsToReview
                       /\ IF werr # NilError THEN RVReturn(werr)
                          ELSE IF Len(prsToReview) = 0 THEN RVReturn(NilError)
                          ELSE rvPc' = "confirm" /\ UNCHANGED rvRet
    /\ UNCHANGED << rvIn, rvIdx, rvShown, rvApproved, rvAnswers,
                    clientVars, handlerVars, repoVars >>

\* Lines 194-201 and 243-249: the answer to "Do you want to review these
\* pull requests?".
RVConfirm ==
    /\ rvPc = "confirm"
    /\ \E read \in ConfirmReads, werr \in WriteResults :
          IF read.err # NilError
          THEN /\ RVReturn([msg |-> "failed to read user input", cause |-> read.err])
               /\ UNCHANGED rvIdx
          ELSE IF Normalize(read.line) \in { Words.y, Words.yes }
          THEN /\ rvPc' = "show"
               /\ rvIdx' = 1
               /\ UNCHANGED rvRet
          ELSE /\ RVReturn(werr)     \* "Exiting without review."
               /\ UNCHANGED rvIdx
    /\ UNCHANGED << rvIn, rvPrs, rvShown, rvApproved, rvAnswers,
                    clientVars, handlerVars, repoVars >>

\* The next iteration of the loop of line 202, or the return of line 249.
RVNext ==
    IF rvIdx < Len(rvPrs)
    THEN /\ rvPc' = "show"
         /\ rvIdx' = rvIdx + 1
         /\ UNCHANGED rvRet
    ELSE /\ RVReturn(NilError)
         /\ UNCHANGED rvIdx

\* Lines 203-210: ShowPullRequest and the prompt.
RVShow ==
    /\ rvPc = "show"
    /\ rvShown' = Append(rvShown, rvIdx)
    /\ \/ RVNext                          \* ShowPullRequest failed: continue
       \/ \E werr \in WriteResults :
             IF werr # NilError
             THEN RVReturn(werr) /\ UNCHANGED rvIdx
             ELSE rvPc' = "answer" /\ UNCHANGED << rvIdx, rvRet >>
    /\ UNCHANGED << rvIn, rvPrs, rvApproved, rvAnswers,
                    clientVars, handlerVars, repoVars >>

\* Lines 212-241: the answer and what the switch does with it.
RVAnswer ==
    /\ rvPc = "answer"
    /\ \E read \in LoopReads, werr \in WriteResults, approved \in BOOLEAN :
          IF read.err # NilError
          THEN /\ RVReturn([msg |-> "failed to read user input", cause |-> read.err])
               /\ UNCHANGED << rvIdx, rvApproved, rvAnswers >>
          ELSE LET actionResponse == Normalize(read.line)
               IN /\ rvAnswers' = Append(rvAnswers, [idx |-> rvIdx, line |-> read.line])
                  /\ IF IsApprove(actionResponse)
                     THEN /\ rvApproved' = Append(rvApproved, rvIdx)
                          /\ IF approved /\ werr # NilError
                             THEN RVReturn(werr) /\ UNCHANGED rvIdx
                             ELSE RVNext
                     ELSE /\ UNCHANGED rvApproved
                          /\ IF werr # NilError
                             THEN RVReturn(werr) /\ UNCHANGED rvIdx
                             ELSE IF IsExit(actionResponse)
                             THEN RVReturn(NilError) /\ UNCHANGED rvIdx
                             ELSE RVNext
    /\ UNCHANGED << rvIn, rvPrs, rvShown, clientVars, handlerVars, repoVars >>

PkgNames == { TrimSpace(l) : l \in PkgLineChoices } \ { <<>> }

Next ==
    \/ ListPackagesFails
    \/ ListPackagesOk
    \/ FilterStep
    \/ \E pkg \in PkgNames : Schedule(pkg)
    \/ StartCloser
    \/ \E pkg \in PkgNames : TaskFails(pkg)
    \/ \E pkg \in PkgNames : TaskSucceeds(pkg)
    \/ \E pkg \in PkgNames : TaskRelease(pkg)
    \/ \E pkg \in PkgNames : TaskDone(pkg)
    \/ CloserWakes
    \/ CloseErrCh
    \/ CloseResultsCh
    \/ RecvErr
    \/ ErrChDrained
    \/ RecvResults
    \/ ResultsDrained
    \/ Cancel
    \/ HandleArtifactsFails
    \/ HandleArtifactsWrites

Spec == Init /\ [][Next]_vars

\* ManageRepo on its own.
HandlerIdle ==
    /\ haPc = "idle"
    /\ haOut = << >>
    /\ haRet = NilError

ClientIdle ==
    /\ cfg = [PackageFilterPatterns |-> << >>]
    /\ semCap = maxConcurrentOscCalls
    /\ ClientStart

RepoInit == ClientIdle /\ HandlerIdle /\ ReviewIdle /\ RepoStart

RepoNext ==
    \/ MRPrepare
    \/ MRSwitch
    \/ MRFetch
    \/ MRPull
    \/ MRClone

RepoSpec == RepoInit /\ [][RepoNext]_vars

\* HandleReview on its own.
ReviewInit == ClientIdle /\ HandlerIdle /\ RepoIdle /\ ReviewStart

ReviewNext ==
    \/ RVList
    \/ RVConfirm
    \/ RVShow
    \/ RVAnswer

ReviewSpec == ReviewInit /\ [][ReviewNext]_vars

\* The steps of ListArtifacts and of its goroutines, without the caller's
\* cancellation.
ProgramStep ==
    \/ ListPackagesFails
    \/ ListPackagesOk
    \/ FilterStep
    \/ \E pkg \in PkgNames : Schedule(pkg)
    \/ StartCloser
    \/ \E pkg \in PkgNames : TaskFails(pkg)
    \/ \E pkg \in PkgNames : TaskSucceeds(pkg)
    \/ \E pkg \in PkgNames : TaskRelease(pkg)
    \/ \E pkg \in PkgNames : TaskDone(pkg)
    \/ CloserWakes
    \/ CloseErrCh
    \/ CloseResultsCh
    \/ RecvErr
    \/ ErrChDrained
    \/ RecvResults
    \/ ResultsDrained
    \/ HandleArtifactsFails
    \/ HandleArtifactsWrites

\* The Go scheduler runs every goroutine that can run, and every command
\* the runner starts returns: the program does not stop while a step is
\* possible.  Nothing obliges the caller to cancel.
\* Termination is checked for the configuration with the single rule "?",
\* which keeps every one-letter package.
LiveRules == << [Pattern |-> <<Byte.question>>, Repository |-> RepoNames[1]] >>
LiveInit == Init /\ cfg.PackageFilterPatterns = LiveRules
LiveSpec == LiveInit /\ [][Next]_vars /\ WF_vars(ProgramStep)

\* ============================================================== properties
Range(seq) == { seq[i] : i \in 1..Len(seq) }
Returned == pc = "done"
ListerFailed == Returned /\ retErr.msg = "failed to list packages for project"
AggregateReturned == Returned /\ retErr.msg = "multiple errors occurred while listing binaries"
ListReturned == Returned /\ retErr = NilError
Running == { pkg \in DOMAIN task : task[pkg].pc = "running" }
Failed == { pkg \in DOMAIN task : task[pkg].outcome = "err" }
Succeeded == { pkg \in DOMAIN task : task[pkg].outcome = "ok" }
Rules == cfg.PackageFilterPatterns

\* C1: the binary-lister invocations that have started and not returned
\* never outnumber the slots of sem, which are at most
\* maxConcurrentOscCalls.
BoundedLookups ==
    /\ Cardinality(Running) <= semCap
    /\ semCap <= maxConcurrentOscCalls

\* The ceiling is reached while the loop still has packages to schedule.
CeilingReached ==
    /\ Cardinality(Running) = semCap
    /\ pending # {}

\* C2: when a lookup has failed, ListArtifacts returns an error and no
\* list, whatever the other lookups returned.
FailTogether ==
    (Returned /\ Failed # {}) => (retErr # NilError /\ retList = NilList)

\* Returned with one lookup failed and another that reported binaries.
FailedBesideSuccess ==
    /\ Returned
    /\ Failed # {}
    /\ \E pkg \in Succeeded : task[pkg].binaries # <<>>

\* C3: the aggregate error has exactly one entry per failed lookup, the
\* error that lookup published (package name and cause), and no other.
OneErrorPerFailure ==
    AggregateReturned =>
        /\ Len(retErr.errors) = Cardinality(Failed)
        /\ \A pkg \in Failed :
              \E i \in 1..Len(retErr.errors) :
                 /\ retErr.errors[i] = task[pkg].err
                 /\ retErr.errors[i].pkg = pkg
                 /\ retErr.errors[i].cause.cause \in RunnerErrors \cup { CtxError }
        /\ \A i \in 1..Len(retErr.errors) : retErr.errors[i].pkg \in Failed

\* An aggregate of two failures returned while a third lookup succeeded.
TwoFailuresAggregated ==
    /\ AggregateReturned
    /\ Cardinality(Failed) = 2
    /\ Succeeded # {}

\* Byte-wise lexicographic order, stated position by position.
LexLeq(s, t) ==
    \E k \in 0..Len(s) :
       /\ k <= Len(t)
       /\ \A i \in 1..k : s[i] = t[i]
       /\ k = Len(s) \/ (k < Len(t) /\ s[k + 1] < t[k + 1])

\* What the configuration says of a name, without the loops of the code.
GlobTable(patterns, names) ==
    [pattern \in patterns |->
        { name \in names : ~BadPattern(pattern) /\ Glob(pattern, name) }]
RuleTable == GlobTable(PkgPatternChoices, PkgNames)
RuleMatches(i, pkg) == pkg \in RuleTable[Rules[i].Pattern]
FilteredByRules == { pkg \in listed : \E i \in 1..Len(Rules) : RuleMatches(i, pkg) }
BinaryNames == UNION { CleanBinaries(output) : output \in OscLsBOutputs }
BinaryTable == GlobTable(BinPatternChoices, BinaryNames)
Kept(name) ==
    \/ Len(binPatterns.patterns) = 0
    \/ \E i \in 1..Len(binPatterns.patterns) :
          name \in BinaryTable[binPatterns.patterns[i]]

\* What the lookups reported.
ReportedBy(pkg) ==
    IF pkg \in Succeeded THEN Range(task[pkg].binaries) ELSE {}
ReportedNames == UNION { ReportedBy(pkg) : pkg \in DOMAIN task }
Reports(name) ==
    Cardinality(UNION { { << pkg, i >> : i \in { j \in 1..Len(task[pkg].binaries) :
                                                   task[pkg].binaries[j] = name } } :
                        pkg \in Succeeded })
Least(S) == CHOOSE n \in S : \A o \in S : LexLeq(n, o)
Repeat(name, k) == [i \in 1..k |-> name]
RECURSIVE Ascending(_)
Ascending(S) ==
    IF S = {} THEN << >>
    ELSE Repeat(Least(S), Reports(Least(S))) \o Ascending(S \ { Least(S) })

\* C4: the returned list is fixed by the package list, the rules, the
\* binaries each lookup reported and the binary patterns: it is the kept
\* names in ascending order, each once per report, whatever the order in
\* which the tasks started, finished and were drained.
OrderIndependent ==
    (ListReturned /\ chCap > 0) =>
        retList = Ascending({ n \in ReportedNames : Kept(n) })

\* Three lookups succeeded and their results were drained in an order that
\* is not the returned one.
DrainedOutOfOrder ==
    /\ ListReturned
    /\ Cardinality(Succeeded) = 3
    /\ Len(binPatterns.patterns) = 0
    /\ Len(retList) >= 3
    /\ allBinaries # retList

\* A run with one slot that visits the packages in ascending order: the
\* concatenation of what the lookups reported.
RECURSIVE SequentialBinaries(_)
SequentialBinaries(S) ==
    IF S = {} THEN << >>
    ELSE (IF Least(S) \in DOMAIN task THEN task[Least(S)].binaries ELSE << >>)
         \o SequentialBinaries(S \ { Least(S) })

\* C5: the outcome does not depend on the capacity of sem: with 1, 2 or
\* maxConcurrentOscCalls slots it is the outcome of the sequential run over
\* the same lookups (the same list, or an error for the same failures).
LimitInvariant ==
    (Returned /\ chCap > 0) =>
        IF \E pkg \in DOMAIN filteredPackages : pkg \in Failed
        THEN /\ AggregateReturned
             /\ retList = NilList
             /\ Range(retErr.errors) = { task[pkg].err : pkg \in Failed }
        ELSE /\ retErr = NilError
             /\ retList = FinalList(SequentialBinaries(DOMAIN filteredPackages),
                                    binPatterns.patterns)

\* A run with a single slot that returned the binaries of three packages.
SingleSlotRun ==
    /\ ListReturned
    /\ semCap = 1
    /\ Cardinality(Succeeded) = 3
    /\ Len(retList) >= 3

\* C6: no artifact name occurs twice in the returned list, also when two
\* filtered packages report the same name, with or without binary patterns.
NoDuplicateArtifacts ==
    ListReturned =>
        \A i, j \in 1..Len(retList) : i # j => retList[i] # retList[j]

\* C7: a list returned without error is in ascending byte-wise order, with
\* and without binary filter patterns.
SortedAscending ==
    ListReturned =>
        \A i \in 1..(Len(retList) - 1) : LexLeq(retList[i], retList[i + 1])

\* Binary patterns were configured, two different names passed them, and
\* they were drained in descending order.
SortedAfterFilter ==
    /\ ListReturned
    /\ Len(binPatterns.patterns) > 0
    /\ \E i, j \in 1..Len(allBinaries) :
          /\ i < j
          /\ Kept(allBinaries[i]) /\ Kept(allBinaries[j])
          /\ allBinaries[i] # allBinaries[j]
          /\ LexLeq(allBinaries[j], allBinaries[i])

\* C8: when ListArtifacts succeeds, exactly the packages that match a rule
\* were looked up, and a name is in the list iff one of those lookups
\* reported it and the binary patterns are empty or one of them matches it.
ExactMembership ==
    ListReturned =>
        /\ DOMAIN task = FilteredByRules
        /\ \A name \in ReportedNames \cup Range(retList) :
              name \in Range(retList) <=>
                 /\ \E pkg \in FilteredByRules : name \in ReportedBy(pkg)
                 /\ Kept(name)

\* A listed package matched no rule, a reported name matched no binary
\* pattern, and the returned list is not empty.
FilteredOnBothLevels ==
    /\ ListReturned
    /\ listed \ FilteredByRules # {}
    /\ \E name \in ReportedNames : ~Kept(name)
    /\ retList # << >>

\* C9: with no package filter rule, nothing is scheduled (no slot taken, no
\* task, no channel, no closing goroutine), and unless listPackages failed
\* ListArtifacts returns an empty list and no error.
NoRulesNoWork ==
    Len(Rules) = 0 =>
        /\ DOMAIN task = {} /\ DOMAIN filteredPackages = {}
        /\ sem = 0 /\ wg = 0 /\ chCap = 0 /\ closer = "none"
        /\ pc \in { "listPackages", "filter", "done" }
        /\ (Returned /\ ~ListerFailed) => (retErr = NilError /\ retList = << >>)

\* No rule, packages listed, returned.
NoRulesPackagesListed ==
    /\ Len(Rules) = 0
    /\ Returned
    /\ Cardinality(listed) >= 2
    /\ retErr = NilError

\* C10: a filtered package carries the repository of the first rule, in
\* declaration order, whose pattern matches it, and its lookup is invoked
\* for that package with that repository.
FirstRuleWins ==
    \A pkg \in DOMAIN filteredPackages :
       \E i \in 1..Len(Rules) :
          /\ RuleMatches(i, pkg)
          /\ \A j \in 1..(i - 1) : ~RuleMatches(j, pkg)
          /\ filteredPackages[pkg] = Rules[i].Repository
          /\ pkg \in DOMAIN task =>
                /\ task[pkg].pkgName = pkg
                /\ task[pkg].repoName = Rules[i].Repository

\* A lookup was invoked for a package that two rules match.
TwoRulesMatchLookup ==
    \E pkg \in DOMAIN task :
       /\ Len(Rules) >= 2
       /\ RuleMatches(1, pkg) /\ RuleMatches(2, pkg)
       /\ Rules[1].Repository # Rules[2].Repository

\* C11: when listPackages fails, ListArtifacts returns that error wrapped
\* with the project and no list, and nothing of step 3 has happened: no
\* slot taken, no task, no channel, no lookup.
ListErrorIsFatal ==
    listErr # NilError =>
        /\ Returned
        /\ retErr.msg = "failed to list packages for project"
        /\ retErr.project = Project
        /\ retErr.cause = listErr
        /\ retList = NilList
        /\ pkgListerCalls = 1
        /\ sem = 0 /\ wg = 0 /\ chCap = 0 /\ closer = "none"
        /\ DOMAIN task = {} /\ DOMAIN filteredPackages = {}

\* `osc ls` failed on its own, with rules configured.
ListCommandFailed ==
    /\ listErr # NilError
    /\ listErr.cause \in RunnerErrors
    /\ Len(Rules) > 0

\* C13: listPackages is invoked at most once and listBinariesForPackage
\* once for each package that has a task, also after it failed.
NoRetry ==
    /\ pkgListerCalls <= 1
    /\ \A pkg \in DOMAIN task : task[pkg].calls = 1

\* Everything has finished after a lookup failed.
FinishedAfterFailure ==
    /\ Returned
    /\ closer = "exited"
    /\ Failed # {}
    /\ Cardinality(DOMAIN task) = 3

\* C14: once step 2 is over every name that matches a rule has one map
\* entry, with the repository of a rule that matches it, and one task
\* (started or still to start); the channels and the barrier count names,
\* not lines of the package list.
OneTaskPerName ==
    pc \notin { "listPackages", "filter" } =>
        LET names == DOMAIN filteredPackages
        IN /\ names = FilteredByRules
           /\ \A pkg \in names :
                 \E i \in 1..Len(Rules) :
                    RuleMatches(i, pkg) /\ filteredPackages[pkg] = Rules[i].Repository
           /\ names # {} =>
                 /\ chCap = Cardinality(names)
                 /\ DOMAIN task \cap pending = {}
                 /\ DOMAIN task \cup pending = names
                 /\ wg = Cardinality({ pkg \in DOMAIN task : task[pkg].pc # "done" })

\* A name listed twice that two rules match has its task.
RepeatedNameScheduled ==
    \E pkg \in repeated \cap DOMAIN task :
       /\ Len(Rules) >= 2
       /\ RuleMatches(1, pkg) /\ RuleMatches(2, pkg)

\* C15: when no listed package matches a rule, ListArtifacts returns an
\* empty list and no error straight after step 2, with nothing of step 3
\* created; and an aggregate error never names a package outside the
\* filtered ones.
NothingFilteredNoWork ==
    /\ (pc \notin { "listPackages", "filter" } /\ listErr = NilError
          /\ FilteredByRules = {}) =>
           /\ Returned
           /\ retErr = NilError /\ retList = << >>
           /\ sem = 0 /\ wg = 0 /\ chCap = 0 /\ closer = "none"
           /\ DOMAIN task = {} /\ errClosed = 0 /\ resClosed = 0
    /\ AggregateReturned =>
           \A i \in 1..Len(retErr.errors) : retErr.errors[i].pkg \in FilteredByRules

\* Rules are configured and packages listed, but none matches.
NoPackageMatched ==
    /\ Returned
    /\ Len(Rules) > 0
    /\ \E i \in 1..Len(Rules) : ~BadPattern(Rules[i].Pattern)
    /\ listed # {}
    /\ FilteredByRules = {}

\* C16: a malformed glob is a pattern that does not match, nothing more:
\* the rules and binary patterns after it still decide, and an error is
\* returned only when a command failed.
MalformedGlobSkipped ==
    /\ pc \notin { "listPackages", "filter" } =>
          \A pkg \in listed :
             pkg \in DOMAIN filteredPackages <=>
                \E i \in 1..Len(Rules) : RuleMatches(i, pkg)
    /\ (ListReturned /\ binPatterns.read) =>
          \A name \in ReportedNames : name \in Range(retList) <=> Kept(name)
    /\ (Returned /\ retErr # NilError) => (listErr # NilError \/ Failed # {})

\* A malformed rule and a malformed binary pattern, each followed by a
\* valid one that matched.
MalformedThenValid ==
    /\ ListReturned
    /\ Len(Rules) = 2 /\ BadPattern(Rules[1].Pattern)
    /\ Len(binPatterns.patterns) = 2 /\ BadPattern(binPatterns.patterns[1])
    /\ retList # << >>

\* C12: a lookup that is in flight when ctx is cancelled, or is started
\* after that, ends with an error; ListArtifacts then returns an error,
\* and whenever it has returned no lookup is running.
CancelledLookupFails ==
    \A pkg \in PkgNames :
       (/\ cancelled
        /\ pkg \in Running
        /\ task'[pkg].pc # "running") => task'[pkg].outcome = "err"

CancelEndsLookups ==
    /\ [][CancelledLookupFails]_vars
    /\ [](Returned => Running = {})
    /\ (cancelled /\ Running # {}) ~> (Returned /\ retErr # NilError)

\* ListArtifacts has returned the aggregate of two lookups that ctx's
\* cancellation ended.
CancelledInFlight ==
    /\ AggregateReturned
    /\ cancelled
    /\ Cardinality({ pkg \in Failed : task[pkg].err.cause.cause = CtxError }) >= 2

\* C20: ListArtifacts returns in every run, also with more filtered
\* packages than slots: whenever the loop of step 3 waits for a slot, a
\* task that holds one is either in its lookup, with room in both channels
\* for what it will send, or about to give the slot back.
SlotHolderCanMove(pkg) ==
    \/ task[pkg].pc = "published"
    \/ /\ task[pkg].pc = "running"
       /\ Len(errCh) < chCap
       /\ Len(resultsCh) < chCap

LoopWaitsForSlot == pc = "schedule" /\ pending # {} /\ ~SemHasRoom

AlwaysReturns ==
    /\ [](LoopWaitsForSlot => \E pkg \in DOMAIN task : SlotHolderCanMove(pkg))
    /\ <>Returned

\* The loop waits for a slot while a finished lookup's message sits in a
\* channel nobody reads yet.
WaitingWithUnreadMessage ==
    /\ LoopWaitsForSlot
    /\ Len(errCh) + Len(resultsCh) > 0

\* C17: HandleArtifacts hands one message to the output writer when
\* ListArtifacts succeeded: the header and the artifacts in the returned
\* order, a newline between them, or the 'No artifacts found' line when
\* the list is empty.  When ListArtifacts failed it writes nothing and
\* returns the failure wrapped with the project.
RECURSIVE SplitLines(_)
SplitLines(text) ==
    IF \E i \in 1..Len(text) : text[i] = Byte.nl
    THEN LET i == CHOOSE j \in 1..Len(text) :
                     /\ text[j] = Byte.nl
                     /\ \A k \in 1..(j - 1) : text[k] # Byte.nl
         IN << SubSeq(text, 1, i - 1) >> \o SplitLines(SubSeq(text, i + 1, Len(text)))
    ELSE << text >>

OneMessageOrError ==
    haPc = "done" =>
        /\ retErr = NilError =>
              /\ Len(haOut) = 1
              /\ haOut[1].project = Project
              /\ IF retList # << >>
                 THEN /\ haOut[1].format = "Artifacts for project '%s':\n%s\n"
                      /\ SplitLines(haOut[1].body) = retList
                 ELSE /\ haOut[1].format = "No artifacts found for project '%s'.\n"
                      /\ haOut[1].body = << >>
        /\ retErr # NilError =>
              /\ haOut = << >>
              /\ haRet.msg = "failed to list artifacts for project"
              /\ haRet.project = Project
              /\ haRet.cause = retErr

\* A list of two artifacts has been written.
ArtifactsWritten ==
    /\ haPc = "done"
    /\ Len(haOut) = 1
    /\ Len(retList) >= 2

\* C18: the commands ManageRepo gives to the runner are `git clone` alone
\* when .git is not cached, and otherwise `git switch`, `git fetch`, `git
\* pull` in that order up to the first that fails.  Once a command was
\* issued, an error is returned iff a command failed, and it carries that
\* command's error.  No command is issued when RepoURL or RepoBranch is
\* empty or no repository name can be derived; in these cases, and when
\* the cache directory is missing or cannot be made, an error is returned
\* although no command failed.
Subcommands == [i \in 1..Len(mrCmds) |-> mrCmds[i].argv[2]]
FailedCommands == { i \in 1..Len(mrCmds) : mrCmds[i].err # NilError }
UpdateSequence == << "switch", "fetch", "pull" >>

CommandSequence ==
    /\ \/ mrCmds = << >>
       \/ ~mrFs.hasGit /\ Subcommands = << "clone" >>
       \/ /\ mrFs.hasGit
          /\ Len(mrCmds) <= Len(UpdateSequence)
          /\ Subcommands = SubSeq(UpdateSequence, 1, Len(mrCmds))
    /\ \A i \in 1..Len(mrCmds) : mrCmds[i].argv[1] = "git"
    /\ \A i \in FailedCommands : i = Len(mrCmds)
    /\ (\/ mrCfg.RepoURL = << >>
        \/ mrCfg.RepoBranch = << >>
        \/ deriveRepoName(mrCfg.RepoURL).err # NilError) => mrCmds = << >>

Answered(j, words) == Normalize(rvAnswers[j].line) \in words
ExitAnswers == { j \in 1..Len(rvAnswers) : Answered(j, { Words.e, Words.exit }) }

ShownInOrder ==
    /\ Len(rvShown) <= Len(rvPrs)
    /\ \A i \in 1..Len(rvShown) : rvShown[i] = i
    /\ rvPc = "show" => rvIdx = Len(rvShown) + 1
    /\ rvPc = "answer" => rvIdx = Len(rvShown)
    /\ \A j \in 1..Len(rvAnswers) :
          /\ rvAnswers[j].idx \in 1..Len(rvShown)
          /\ \A k \in 1..(j - 1) : rvAnswers[k].idx < rvAnswers[j].idx

ApprovedOnRequest ==
    \A k \in 1..Len(rvApproved) :
       /\ \E j \in 1..Len(rvAnswers) :
             /\ rvAnswers[j].idx = rvApproved[k]
             /\ Answered(j, { Words.a, Words.approve })
       /\ \A l \in 1..(k - 1) : rvApproved[l] < rvApproved[k]

ExitEndsLoop ==
    \A j \in ExitAnswers :
       /\ j = Len(rvAnswers)
       /\ rvPc = "done"
       /\ Len(rvShown) = rvAnswers[j].idx
       /\ \A k \in 1..Len(rvApproved) : rvApproved[k] < rvAnswers[j].idx

ReviewLoop ==
    /\ ShownInOrder
    /\ ApprovedOnRequest
    /\ ExitEndsLoop
    /\ ExitAnswers # {} => rvRet \in WriteResults

\* The first of three pull requests was approved, the second answered with
\* 'exit', the third never shown.
ExitedBeforeLast ==
    /\ rvPc = "done"
    /\ Len(rvPrs) = 3
    /\ rvApproved = << 1 >>
    /\ rvShown = << 1, 2 >>
    /\ ExitAnswers = { 2 }
    /\ rvRet = NilError

\* C19 as stated: after 'e' or 'exit' the call returns without error.
ExitReturnsNoError ==
    /\ ShownInOrder
    /\ ApprovedOnRequest
    /\ ExitEndsLoop
    /\ ExitAnswers # {} => rvRet = NilError

\* C21: a task never waits to publish: while a lookup is under way both
\* channels have room for its message, whether or not the caller has
\* begun to drain them.
Unfinished == { pkg \in DOMAIN task : task[pkg].pc # "done" }

PublishNeverBlocks ==
    \A pkg \in Running :
       /\ Len(errCh) < chCap
       /\ Len(resultsCh) < chCap

\* A message waits in a channel, another lookup is under way, and the
\* caller is still in the loop of step 3.
PublishedBeforeDrain ==
    /\ pc = "schedule"
    /\ Running # {}
    /\ Len(errCh) + Len(resultsCh) > 0

\* C22: errCh and resultsCh are closed at most once, once each by the time
\* the closing goroutine has ended, and never while a task is unfinished
\* or a filtered package has no task yet.
ClosedOnceAtEnd ==
    /\ errClosed <= 1
    /\ resClosed <= 1
    /\ resClosed <= errClosed
    /\ closer = "exited" => errClosed = 1 /\ resClosed = 1
    /\ (errClosed > 0 \/ closer \in { "closeErr", "closeResults", "exited" }) =>
          /\ pending = {}
          /\ DOMAIN task = DOMAIN filteredPackages
          /\ Unfinished = {}

\* Both channels are closed after three lookups.
BothClosed ==
    /\ closer = "exited"
    /\ errClosed = 1
    /\ resClosed = 1
    /\ Cardinality(DOMAIN task) = 3

\* C23: a task sends only to open channels.  When the closing goroutine
\* exists the loop of step 3 is over, and the barrier counts exactly the
\* unfinished tasks, so it is zero only when none is left.
SendsOnOpenChannel ==
    \A pkg \in PkgNames :
       (pkg \in Running /\ task'[pkg].pc # "running") =>
           errClosed = 0 /\ resClosed = 0

BarrierCoversTasks ==
    /\ wg = Cardinality(Unfinished)
    /\ closer # "none" => pending = {}

NoSendOnClosed ==
    /\ [][SendsOnOpenChannel]_vars
    /\ []BarrierCoversTasks

\* The closing goroutine waits on the barrier while a lookup is under way.
CloserWaitsForLookup ==
    /\ closer = "waiting"
    /\ Running # {}
    /\ wg > 0

\* C24: the caller takes a result from resultsCh only when errCh is closed
\* and empty and no error was collected; after an error was collected the
\* results stay in their channel.
ResultReceived == Len(resultsCh') < Len(resultsCh)

ErrorsChecked ==
    /\ errClosed > 0
    /\ errCh = << >>
    /\ allErrors = << >>

ErrorsBeforeResults ==
    /\ [][ResultReceived => ErrorsChecked]_vars
    /\ [](pc = "drainResults" => ErrorsChecked)
    /\ []((allErrors # << >> /\ pc \in { "drainErr", "done" }) =>
             Len(resultsCh) = Cardinality(Succeeded))

\* The caller has taken the first of two results.
FirstResultTaken ==
    /\ pc = "drainResults"
    /\ Cardinality(Succeeded) = 2
    /\ Len(resultsCh) = 1

\* C25: a failure or a cancellation does not end the loop of step 3: the
\* packages still without a task get theirs, and the aggregate error is
\* returned only when every filtered package has a finished task.
AggregateAfterAll ==
    AggregateReturned =>
        /\ pending = {}
        /\ DOMAIN task = DOMAIN filteredPackages
        /\ Unfinished = {}

FailureKeepsScheduling ==
    /\ []AggregateAfterAll
    /\ (pending # {} /\ (Failed # {} \/ cancelled)) ~> (pending = {})

\* With one slot, a lookup is under way although another has failed.
StartedAfterFailure ==
    /\ semCap = 1
    /\ Failed # {}
    /\ Running # {}

\* C26: a task that has left its lookup has sent one message, an error or
\* a result; so the errors sent are as many as the failed lookups, the
\* results as many as the successful ones, and when the channels are
\* closed the two add up to the number of filtered packages.
OneMessagePerTask ==
    /\ \A pkg \in DOMAIN task :
          task[pkg].outcome = "none" <=> task[pkg].pc = "running"
    /\ pc \in { "schedule", "drainErr" } =>
          /\ Len(errCh) + Len(allErrors) = Cardinality(Failed)
          /\ Len(resultsCh) = Cardinality(Succeeded)
    /\ pc = "drainResults" => Len(resultsCh) <= Cardinality(Succeeded)
    /\ errClosed > 0 =>
          Cardinality(Failed) + Cardinality(Succeeded)
             = Cardinality(DOMAIN filteredPackages)

\* errCh is closed and the messages of three tasks, errors and results,
\* are still unread.
MixedMessagesAtClose ==
    /\ errClosed = 1
    /\ pc = "drainErr"
    /\ Len(errCh) > 0
    /\ Len(resultsCh) > 0
    /\ Len(errCh) + Len(resultsCh) = 3

\* C27: when ListArtifacts returns after step 3, every task is finished,
\* no lookup is under way and no slot is taken.
QuietAtReturn ==
    (Returned /\ DOMAIN filteredPackages # {}) =>
        /\ DOMAIN task = DOMAIN filteredPackages
        /\ Unfinished = {}
        /\ Running = {}
        /\ sem = 0
        /\ wg = 0

\* ListArtifacts has returned a list after three lookups on one slot.
ReturnedAfterThree ==
    /\ ListReturned
    /\ semCap = 1
    /\ Cardinality(DOMAIN task) = 3

\* C28: the goroutine that called ListArtifacts never waits for a slot of
\* sem.
CallerNeverWaitsForSlot == ~LoopWaitsForSlot

\* C29: a task that has sent its message has given its slot back.
ReleasedBeforePublish ==
    \A pkg \in DOMAIN task :
       task[pkg].outcome # "none" => task[pkg].pc \in { "released", "done" }

\* C30: without rules listPackages is still the first thing done, and its
\* failure is returned as an error, which HandleArtifacts passes on
\* without writing.
NoRulesListerFirst ==
    Len(Rules) = 0 =>
        /\ pc # "listPackages" => pkgListerCalls = 1
        /\ listErr # NilError =>
              /\ Returned
              /\ retErr # NilError
              /\ retErr.cause = listErr
        /\ (listErr # NilError /\ haPc = "done") =>
              /\ haRet # NilError
              /\ haOut = << >>

\* `osc ls` failed with no rules configured.
NoRulesListFailed ==
    /\ Len(Rules) = 0
    /\ listErr # NilError
    /\ haPc = "done"

====
